---- MODULE Spec2Model ----
(***************************************************************************)
(* FileStoreClient (src/src/index.ts): session handling and the            *)
(* retry-once-after-401 request flow of the file-store SDK.                *)
(*                                                                         *)
(* One client instance is shared by a bounded number of callers.  Every    *)
(* caller runs a sequence of public operations (login, getFile,            *)
(* uploadContentList); each `await` of the source is a suspension point,   *)
(* so one action of the model is the code that runs between two awaits.    *)
(* setBucket is synchronous and is one action.  The remote service is the  *)
(* environment: every response (status, payload, headers, Set-Cookie for   *)
(* the jwt_token cookie) or transport failure is chosen nondeterministic-  *)
(* ally when the awaiting code resumes.                                    *)
(*                                                                         *)
(* Of the multipart form built by uploadContentList only what decides the  *)
(* control flow is modelled: fs.createReadStream throwing on a file item.  *)
(* The form's content is request payload and never read back by the        *)
(* client.  Of the text that follows the status code in the request-failed *)
(* message only its computation is modelled, which can throw.  The retried *)
(* request hands the same form to the HTTP client again; what the service  *)
(* makes of it is part of the answer the environment chooses.              *)
(***************************************************************************)
EXTENDS Integers, Sequences, FiniteSets, TLC

(***************************************************************************)
(* Bounds                                                                  *)
(***************************************************************************)
MaxCalls == 3        \* public async operations started on the client
MaxLen == 5          \* longest payload of the decoding specification

Procs == {"c1", "c2"}            \* concurrent call chains on the one client

(***************************************************************************)
(* Value domains                                                           *)
(***************************************************************************)
null == "<null>"                 \* the JavaScript null of jwt and bucket
NoCookie == "<no cookie>"        \* the jar holds no jwt_token cookie
Tokens == {"", "t1", "t2"}       \* values a jwt_token cookie can carry
Buckets == {"", "b1", "b2"}      \* arguments of setBucket
Paths == {"p"}                   \* filePath / targetPath arguments
\* csrfResp.data?.csrfToken (null: absent).  The service can also send a
\* JSON value that is not a text: an object whose own property toString is
\* not a function, or an array holding such an object.
ObjectToken == "<{toString:1}>"
ArrayToken == "<[{toString:1}]>"
CsrfTokens == {null, "", "c1", ObjectToken, ArrayToken}
Statuses == {199, 200, 299, 300, 401, 500}
HeaderSets == {"h1"}

\* What a response does to the jwt_token cookie of the jar.
KeepCookie == "<keep>"
ExpireCookie == "<expire>"
SetCookies == {KeepCookie, ExpireCookie} \cup Tokens

\* The messages of the errors the client throws.
MsgNotAuthenticated == "Not authenticated. Please login first."
MsgNoBucket == "No bucket set. Please select bucket first."
MsgCsrf == "CSRF token not found in response."
MsgJwtCookie == "JWT cookie not found after login."
MsgRequestFailed == "Request failed: "
MsgRequestStatus == "Request failed with status "
MsgAxios == "<axios error>"      \* error thrown by axios itself, not wrapped
\* The TypeErrors thrown inside the client's own code.
MsgNotAFunction == "response.data?.toString is not a function"
MsgNotPrimitive == "Cannot convert object to primitive value"
MsgInvalidPath == "The argument 'path' must be a string, Uint8Array, or URL without null bytes."
NoStatus == 0

VARIABLES
    jwt,          \* FileStoreClient.jwt
    bucket,       \* FileStoreClient.bucket
    cookieJar,    \* value of the jwt_token cookie in FileStoreClient.cookieJar
    pc,           \* per call chain: the await it is suspended on
    op,           \* per call chain: the public operation it runs
    request,      \* per call chain: method and url of requestWithAutoRelogin
    retry,        \* per call chain: parameter retry of requestWithAutoRelogin
    decodeJson,   \* per call chain: parameter decodeJson
    result,       \* per call chain: what the operation returned or threw
    calls,        \* operations started on the client so far
    log           \* per call chain: history of the current operation

vars == <<jwt, bucket, cookieJar, pc, op, request, retry, decodeJson, result, calls, log>>

(***************************************************************************)
(* Values                                                                  *)
(***************************************************************************)
\* JavaScript truthiness of a string | null value (`!x` is its negation).
Truthy(x) == x # null /\ x # ""

Text(s) == [kind |-> "text", val |-> s]
Binary(s) == [kind |-> "binary", val |-> s]
\* response.data that the HTTP client parsed from a JSON body: an object,
\* told apart by its property toString (inherited, or an own property that
\* is not a function).
Inherited == "<Object.prototype.toString>"
Object(toStr) == [kind |-> "object", toString |-> toStr]

NoRequest == [method |-> "none", bucket |-> null, path |-> null]
NoResult == [tag |-> "none"]
Returned(v) == [tag |-> "ok", value |-> v]
Session(token) == [token |-> token]      \* the string login() returns
Thrown(m, s) == [tag |-> "error", message |-> m, status |-> s]

\* History kept for the properties: one event per request, response or
\* step of an operation, in the order the code performs them.  The detail
\* x of an event is a record: the request, what was received, the place of
\* a failure, or nothing.
Event(e, x) == [ev |-> e, x |-> x]
NoDetail == [detail |-> FALSE]
At(place) == [at |-> place]
Received(response) == [status |-> response.status, data |-> response.data]

(***************************************************************************)
(* JSON.parse on texts over the alphabet 1 [ ] ,  : a number is a run of   *)
(* digits, an array is [ ] or [ value (, value)* ], and the whole text has *)
(* to be consumed.  ParseFail stands for the SyntaxError JSON.parse throws.*)
(***************************************************************************)
Alphabet == {"1", "[", "]", ","}
ParseFail == [ok |-> FALSE]
Parsed(v, n) == [ok |-> TRUE, val |-> v, next |-> n]
Number(n) == [kind |-> "number", num |-> n]
Array(a) == [kind |-> "array", items |-> a]

RECURSIVE ParseNumber(_, _, _)
ParseNumber(s, i, acc) ==
    IF i <= Len(s) /\ s[i] = "1"
    THEN ParseNumber(s, i + 1, acc * 10 + 1)
    ELSE Parsed(Number(acc), i)

RECURSIVE ParseValue(_, _)
RECURSIVE ParseElements(_, _, _)
ParseValue(s, i) ==
    IF i > Len(s) THEN ParseFail
    ELSE IF s[i] = "1" THEN ParseNumber(s, i, 0)
    ELSE IF s[i] = "["
         THEN IF i + 1 <= Len(s) /\ s[i + 1] = "]"
              THEN Parsed(Array(<<>>), i + 2)
              ELSE ParseElements(s, i + 1, <<>>)
    ELSE ParseFail

ParseElements(s, i, acc) ==
    LET v == ParseValue(s, i) IN
    IF ~v.ok THEN ParseFail
    ELSE IF v.next > Len(s) THEN ParseFail
    ELSE IF s[v.next] = "," THEN ParseElements(s, v.next + 1, Append(acc, v.val))
    ELSE IF s[v.next] = "]" THEN Parsed(Array(Append(acc, v.val)), v.next + 1)
    ELSE ParseFail

JSONparse(s) ==
    LET v == ParseValue(s, 1) IN
    IF v.ok /\ v.next = Len(s) + 1 THEN v ELSE ParseFail

(***************************************************************************)
(* requestWithAutoRelogin, lines 140-155: interpretation of a response     *)
(* that is not retried.                                                    *)
(***************************************************************************)
\* Variant of line 140 with the upper comparison off by one.
IsSuccessStatusInclusive(status) == ~(status < 200 \/ status > 300)

\* Line 140.
IsSuccessStatus(status) == ~(status < 200 \/ status >= 300)

\* Variant of lines 144-155 that ignores the decodeJson parameter.
SuccessResultAlwaysDecodes(dj, response) ==
    IF response.data.kind = "text"
    THEN LET parsed == JSONparse(response.data.val) IN
         IF parsed.ok
         THEN [body |-> parsed.val, headers |-> response.headers]
         ELSE [body |-> response.data, headers |-> response.headers]
    ELSE [body |-> response.data, headers |-> response.headers]

\* Lines 144-155: the value returned for a 2xx response.
SuccessResult(dj, response) ==
    IF dj
    THEN IF response.data.kind = "text"
         THEN LET parsed == JSONparse(response.data.val) IN
              IF parsed.ok
              THEN [body |-> parsed.val, headers |-> response.headers]
              ELSE [body |-> response.data, headers |-> response.headers]
         ELSE [body |-> response.data, headers |-> response.headers]
    ELSE [body |-> response.data, headers |-> response.headers]

\* ToPrimitive with hint string: the toString of an object is called when
\* it is a function, an array joins the conversions of its items.
RECURSIVE ConvertsToPrimitive(_)
ConvertsToPrimitive(v) ==
    IF v.kind = "object" THEN v.toString = Inherited
    ELSE IF v.kind = "array"
         THEN \A i \in 1..Len(v.items) : ConvertsToPrimitive(v.items[i])
    ELSE TRUE

\* Line 141, `response.data?.toString()`: the message of the TypeError it
\* throws, null when it yields the text of the message.
DataToString(data) ==
    IF data.kind = "object" /\ data.toString # Inherited THEN MsgNotAFunction
    ELSE IF ~ConvertsToPrimitive(data) THEN MsgNotPrimitive
    ELSE null

\* Lines 140-155: throw on a status outside [200,300), else return.
Interpret(dj, response) ==
    IF ~IsSuccessStatus(response.status)
    THEN IF DataToString(response.data) # null
         THEN Thrown(DataToString(response.data), NoStatus)
         ELSE Thrown(MsgRequestStatus, response.status)
    ELSE Returned(SuccessResult(dj, response))

\* Variants of line 135: a wrong status code; the retry flag ignored.
ShouldReloginWrongStatus(status, retryFlag) == status = 400 /\ retryFlag
ShouldReloginAlways(status, retryFlag) == status = 401

\* Line 135: the condition under which a response triggers the re-login.
ShouldRelogin(status, retryFlag) == status = 401 /\ retryFlag

\* Variant of line 136 without the await: the call chain goes on to the
\* retried request while the handshake is still to be answered.
ReloginNotAwaited == "relogged"

\* Line 136, `await this.login()`: login() has run up to its first await
\* and the call chain stays suspended there.
ReloginSuspension == "csrf"

\* Variant of lines 51-57 without the check of line 53.
ExtractJwtUnchecked(jar) == Returned(Session(jar))

\* Lines 51-57: what login() does with the cookies of the jar.
ExtractJwt(jar) ==
    IF jar = NoCookie
    THEN Thrown(MsgJwtCookie, NoStatus)
    ELSE Returned(Session(jar))

\* Variant of lines 64-67 without the bucket check of line 66.
ensureAuthenticatedTokenOnly(j, b) ==
    IF ~Truthy(j) THEN MsgNotAuthenticated
    ELSE null

\* Lines 64-67: the message ensureAuthenticated throws, null when it returns.
ensureAuthenticated(j, b) ==
    IF ~Truthy(j) THEN MsgNotAuthenticated
    ELSE IF ~Truthy(b) THEN MsgNoBucket
    ELSE null

\* tough-cookie stores the Set-Cookie of every response the client receives.
StoreCookie(jar, setCookie) ==
    IF setCookie = KeepCookie THEN jar
    ELSE IF setCookie = ExpireCookie THEN NoCookie
    ELSE setCookie

(***************************************************************************)
(* What the service can answer                                             *)
(***************************************************************************)
ObjectPayloads == {Object(Inherited), Object("1"), Array(<<Object("1")>>)}
Payloads == {Text(<<"[", "1", "]">>), Text(<<"[", "1">>), Binary(<<"1">>)} \cup ObjectPayloads
Responses(statuses, payloads, setCookies) ==
    [status : statuses, data : payloads, headers : HeaderSets, setCookie : setCookies]

\* Lines 72-75 and 118: getFile asks for responseType 'arraybuffer' and is
\* handed the raw bytes; uploadContentList leaves the default, by which the
\* HTTP client hands over the value parsed from a JSON body, or the text.
Delivered(method, data) == (method = "get") <=> (data.kind = "binary")

\* The responses the data request of p can be answered with.
Answers(p, statuses, payloads, setCookies) ==
    {response \in Responses(statuses, payloads, setCookies) :
        Delivered(request[p].method, response.data)}

CsrfResponses(setCookies) == [csrfToken : CsrfTokens, setCookie : setCookies]
CredentialResponses(setCookies) == [setCookie : setCookies]

\* The smaller answer sets of the specification with two call chains.
FewStatuses == {200, 401}
FewPayloads == {Text(<<"1">>), Binary(<<"1">>)}
FewSetCookies == {KeepCookie, ExpireCookie, "t1"}

(***************************************************************************)
(* Initial state: the client right after its constructor                   *)
(***************************************************************************)
Init ==
    /\ jwt = null
    /\ bucket = null
    /\ cookieJar = NoCookie
    /\ pc = [p \in Procs |-> "idle"]
    /\ op = [p \in Procs |-> "none"]
    /\ request = [p \in Procs |-> NoRequest]
    /\ retry = [p \in Procs |-> FALSE]
    /\ decodeJson = [p \in Procs |-> FALSE]
    /\ result = [p \in Procs |-> NoResult]
    /\ calls = 0
    /\ log = [p \in Procs |-> <<>>]

(***************************************************************************)
(* Steps shared by the operations                                          *)
(***************************************************************************)
Callable(p) == pc[p] \in {"idle", "done"} /\ calls < MaxCalls

\* A public operation is entered: its frame replaces the finished one.
Enter(p, name) ==
    /\ Callable(p)
    /\ calls' = calls + 1
    /\ op' = [op EXCEPT ![p] = name]

\* The operation settles: it returns or throws `res` to its caller.
Settle(p, res) ==
    /\ pc' = [pc EXCEPT ![p] = "done"]
    /\ result' = [result EXCEPT ![p] = res]
    /\ UNCHANGED <<request, retry, decodeJson>>

\* Lines 34-36: login() runs up to its first await, the anti-forgery GET.
InvokeLogin(l) == l \o <<Event("login", NoDetail), Event("csrfGet", NoDetail)>>

(***************************************************************************)
(* Public operations                                                       *)
(***************************************************************************)
\* Variant of lines 30-32 that starts a new session for the new bucket.
SetBucketResetsSession(b) ==
    /\ bucket' = b
    /\ jwt' = null
    /\ UNCHANGED <<cookieJar, pc, op, request, retry, decodeJson, result, calls, log>>

\* Lines 30-32.
SetBucket(b) ==
    /\ bucket' = b
    /\ UNCHANGED <<jwt, cookieJar, pc, op, request, retry, decodeJson, result, calls, log>>

\* Lines 34-36: a caller invokes login(); it suspends on the anti-forgery GET.
Login(p) ==
    /\ Enter(p, "login")
    /\ pc' = [pc EXCEPT ![p] = "csrf"]
    /\ log' = [log EXCEPT ![p] = InvokeLogin(<<>>)]
    /\ result' = [result EXCEPT ![p] = NoResult]
    /\ request' = [request EXCEPT ![p] = NoRequest]
    /\ retry' = [retry EXCEPT ![p] = FALSE]
    /\ decodeJson' = [decodeJson EXCEPT ![p] = FALSE]
    /\ UNCHANGED <<jwt, bucket, cookieJar>>

\* What an uploadContentList can be given: lists of content items.
NulPath == "a<NUL>b"             \* a file name that holds a null byte
ContentItems == [type : {"file", "path", "html"}, value : {"a", NulPath}]
ContentLists ==
    {<<>>} \cup {<<item>> : item \in ContentItems}
           \cup {<<[type |-> "html", value |-> "a"], item>> : item \in ContentItems}

\* Line 93: fs.createReadStream validates its path before it opens the file.
createReadStreamThrows(path) == path = NulPath

\* Lines 88-116: the message of the error thrown while the form is built,
\* null when the form is built.
BuildForm(contentList) ==
    IF \E i \in 1..Len(contentList) :
          contentList[i].type = "file" /\ createReadStreamThrows(contentList[i].value)
    THEN MsgInvalidPath
    ELSE null

\* Lines 69-76 and 85-118 up to the await of line 130: the precondition
\* check, the url built from the bucket of this moment, the form (its
\* error, null for none), the first request.
DataOperation(p, name, method, path, dj, formError) ==
    /\ Enter(p, name)
    /\ LET checked == ensureAuthenticated(jwt, bucket)
           thrown == IF checked # null THEN checked ELSE formError
           req == [method |-> method, bucket |-> bucket, path |-> path] IN
       IF thrown # null
       THEN /\ pc' = [pc EXCEPT ![p] = "done"]
            /\ result' = [result EXCEPT ![p] = Thrown(thrown, NoStatus)]
            /\ request' = [request EXCEPT ![p] = NoRequest]
            /\ retry' = [retry EXCEPT ![p] = FALSE]
            /\ decodeJson' = [decodeJson EXCEPT ![p] = dj]
            /\ log' = [log EXCEPT ![p] = <<>>]
       ELSE /\ pc' = [pc EXCEPT ![p] = "request"]
            /\ request' = [request EXCEPT ![p] = req]
            /\ retry' = [retry EXCEPT ![p] = TRUE]
            /\ decodeJson' = [decodeJson EXCEPT ![p] = dj]
            /\ result' = [result EXCEPT ![p] = NoResult]
            /\ log' = [log EXCEPT ![p] = <<Event("request", req)>>]
    /\ UNCHANGED <<jwt, bucket, cookieJar>>

\* Lines 69-76: retry = true, decodeJson = false.
GetFile(p, filePath) == DataOperation(p, "getFile", "get", filePath, FALSE, null)

\* Lines 78-119: retry = true, decodeJson as passed by the caller.
UploadContentList(p, targetPath, contentList, dj) ==
    DataOperation(p, "uploadContentList", "put", targetPath, dj, BuildForm(contentList))

(***************************************************************************)
(* requestWithAutoRelogin resumes after `await this.client.request`        *)
(* (lines 128-156).                                                        *)
(***************************************************************************)
\* Variant of lines 131-133 that sends the request once more after a
\* transport failure of the first attempt.
RequestFailedRetries(p) ==
    /\ pc[p] = "request"
    /\ IF retry[p]
       THEN /\ retry' = [retry EXCEPT ![p] = FALSE]
            /\ log' = [log EXCEPT ![p] =
                          @ \o <<Event("failure", At("request")), Event("request", request[p])>>]
            /\ UNCHANGED <<pc, request, decodeJson, result>>
       ELSE /\ Settle(p, Thrown(MsgRequestFailed, NoStatus))
            /\ log' = [log EXCEPT ![p] = Append(@, Event("failure", At("request")))]
    /\ UNCHANGED <<jwt, bucket, cookieJar, op, calls>>

\* Lines 131-133: the request threw; the error is wrapped and rethrown.
RequestFailed(p) ==
    /\ pc[p] = "request"
    /\ Settle(p, Thrown(MsgRequestFailed, NoStatus))
    /\ log' = [log EXCEPT ![p] = Append(@, Event("failure", At("request")))]
    /\ UNCHANGED <<jwt, bucket, cookieJar, op, calls>>

\* Lines 135-156: a response arrived.
RequestAnswered(p, response) ==
    /\ pc[p] = "request"
    /\ cookieJar' = StoreCookie(cookieJar, response.setCookie)
    /\ IF ShouldRelogin(response.status, retry[p])
       THEN /\ pc' = [pc EXCEPT ![p] = ReloginSuspension]
            /\ log' = [log EXCEPT ![p] =
                          InvokeLogin(Append(@, Event("response", Received(response))))]
            /\ UNCHANGED <<request, retry, decodeJson, result>>
       ELSE /\ Settle(p, Interpret(decodeJson[p], response))
            /\ log' = [log EXCEPT ![p] = Append(@, Event("response", Received(response)))]
    /\ UNCHANGED <<jwt, bucket, op, calls>>

(***************************************************************************)
(* login() (lines 34-58), called by a caller or by requestWithAutoRelogin  *)
(***************************************************************************)
\* Line 36 or line 43 threw: axios' own error leaves login() unwrapped.
HandshakeFailed(p) ==
    /\ pc[p] \in {"csrf", "credentials"}
    /\ Settle(p, Thrown(MsgAxios, NoStatus))
    /\ log' = [log EXCEPT ![p] = Append(@, Event("failure", At(pc[p])))]
    /\ UNCHANGED <<jwt, bucket, cookieJar, op, calls>>

\* Variant of line 37 that only notices a token that is not there at all.
CsrfTokenMissingNullOnly(csrfResp) == csrfResp.csrfToken = null

\* Line 37: `!csrfResp.data?.csrfToken`.
CsrfTokenMissing(csrfResp) == ~Truthy(csrfResp.csrfToken)

\* Lines 43-46, `new URLSearchParams({ csrfToken, token })`: the token is
\* converted to a string, which throws for a value without a primitive.
URLSearchParamsThrows(token) == token \in {ObjectToken, ArrayToken}

\* Variant of lines 36-48 in which login() starts over when the
\* anti-forgery token is missing.
CsrfAnsweredStartsOver(p, csrfResp) ==
    /\ pc[p] = "csrf"
    /\ cookieJar' = StoreCookie(cookieJar, csrfResp.setCookie)
    /\ IF CsrfTokenMissing(csrfResp)
       THEN /\ log' = [log EXCEPT ![p] = InvokeLogin(Append(@, Event("csrfResp", NoDetail)))]
            /\ UNCHANGED <<pc, request, retry, decodeJson, result>>
       ELSE IF URLSearchParamsThrows(csrfResp.csrfToken)
       THEN /\ Settle(p, Thrown(MsgNotPrimitive, NoStatus))
            /\ log' = [log EXCEPT ![p] =
                          @ \o <<Event("csrfResp", NoDetail),
                                 Event("paramsThrew", NoDetail)>>]
       ELSE /\ pc' = [pc EXCEPT ![p] = "credentials"]
            /\ log' = [log EXCEPT ![p] =
                          @ \o <<Event("csrfResp", NoDetail),
                                 Event("credPost", NoDetail)>>]
            /\ UNCHANGED <<request, retry, decodeJson, result>>
    /\ UNCHANGED <<jwt, bucket, op, calls>>

\* Lines 36-48: the anti-forgery response; the token is checked, the body
\* of the credential POST is built, the POST is issued.
CsrfAnswered(p, csrfResp) ==
    /\ pc[p] = "csrf"
    /\ cookieJar' = StoreCookie(cookieJar, csrfResp.setCookie)
    /\ IF CsrfTokenMissing(csrfResp)
       THEN /\ Settle(p, Thrown(MsgCsrf, NoStatus))
            /\ log' = [log EXCEPT ![p] = Append(@, Event("csrfResp", NoDetail))]
       ELSE IF URLSearchParamsThrows(csrfResp.csrfToken)
       THEN /\ Settle(p, Thrown(MsgNotPrimitive, NoStatus))
            /\ log' = [log EXCEPT ![p] =
                          @ \o <<Event("csrfResp", NoDetail),
                                 Event("paramsThrew", NoDetail)>>]
       ELSE /\ pc' = [pc EXCEPT ![p] = "credentials"]
            /\ log' = [log EXCEPT ![p] =
                          @ \o <<Event("csrfResp", NoDetail),
                                 Event("credPost", NoDetail)>>]
            /\ UNCHANGED <<request, retry, decodeJson, result>>
    /\ UNCHANGED <<jwt, bucket, op, calls>>

\* Lines 43-51: the credential response; login() awaits the jar's cookies.
CredentialsAnswered(p, loginResp) ==
    /\ pc[p] = "credentials"
    /\ cookieJar' = StoreCookie(cookieJar, loginResp.setCookie)
    /\ pc' = [pc EXCEPT ![p] = "cookies"]
    /\ log' = [log EXCEPT ![p] = Append(@, Event("credResp", loginResp))]
    /\ UNCHANGED <<jwt, bucket, op, request, retry, decodeJson, result, calls>>

\* Lines 51-57: the jar is read; the token is stored or login() throws.
CookiesRead(p) ==
    /\ pc[p] = "cookies"
    /\ LET outcome == ExtractJwt(cookieJar) IN
       IF outcome.tag = "error"
       THEN /\ Settle(p, outcome)
            /\ log' = [log EXCEPT ![p] = Append(@, Event("noCookie", NoDetail))]
            /\ jwt' = jwt
       ELSE /\ jwt' = outcome.value.token
            /\ log' = [log EXCEPT ![p] = Append(@, Event("jwtStored", NoDetail))]
            /\ IF op[p] = "login"
               THEN Settle(p, outcome)
               ELSE /\ pc' = [pc EXCEPT ![p] = "relogged"]
                    /\ UNCHANGED <<request, retry, decodeJson, result>>
    /\ UNCHANGED <<bucket, cookieJar, op, calls>>

\* Variant of line 137 that builds the url again from the bucket of the
\* moment of the retry.
RetryRequestRebuildsUrl(p) ==
    /\ pc[p] = "relogged"
    /\ retry' = [retry EXCEPT ![p] = FALSE]
    /\ pc' = [pc EXCEPT ![p] = "request"]
    /\ request' = [request EXCEPT ![p].bucket = bucket]
    /\ log' = [log EXCEPT ![p] = Append(@, Event("request", request'[p]))]
    /\ UNCHANGED <<jwt, bucket, cookieJar, op, decodeJson, result, calls>>

\* Line 137: after `await this.login()` the same request is issued again
\* with retry = false.
RetryRequest(p) ==
    /\ pc[p] = "relogged"
    /\ retry' = [retry EXCEPT ![p] = FALSE]
    /\ pc' = [pc EXCEPT ![p] = "request"]
    /\ log' = [log EXCEPT ![p] = Append(@, Event("request", request[p]))]
    /\ UNCHANGED <<jwt, bucket, cookieJar, op, request, decodeJson, result, calls>>

\* One call chain: the caller awaits every operation before the next one.
Next ==
    \/ \E b \in Buckets : SetBucket(b)
    \/ Login("c1")
    \/ \E filePath \in Paths : GetFile("c1", filePath)
    \/ \E targetPath \in Paths, contentList \in ContentLists, dj \in BOOLEAN :
           UploadContentList("c1", targetPath, contentList, dj)
    \/ RequestFailed("c1")
    \/ \E response \in Answers("c1", Statuses, Payloads, SetCookies) :
           RequestAnswered("c1", response)
    \/ HandshakeFailed("c1")
    \/ \E csrfResp \in CsrfResponses(SetCookies) : CsrfAnswered("c1", csrfResp)
    \/ \E loginResp \in CredentialResponses(SetCookies) :
           CredentialsAnswered("c1", loginResp)
    \/ CookiesRead("c1")
    \/ RetryRequest("c1")

Spec == Init /\ [][Next]_vars

\* Every network call of the call chain eventually returns a response or
\* fails, and the continuation of every settled await is run.
Progress(p) ==
    \/ RequestFailed(p)
    \/ \E response \in Answers(p, Statuses, Payloads, SetCookies) : RequestAnswered(p, response)
    \/ HandshakeFailed(p)
    \/ \E csrfResp \in CsrfResponses(SetCookies) : CsrfAnswered(p, csrfResp)
    \/ \E loginResp \in CredentialResponses(SetCookies) : CredentialsAnswered(p, loginResp)
    \/ CookiesRead(p)
    \/ RetryRequest(p)

SpecLive == Spec /\ WF_vars(Progress("c1"))

\* Two call chains on the one client instance, interleaved at the awaits.
NextConcurrent ==
    \/ \E b \in Buckets : SetBucket(b)
    \/ \E p \in Procs : Login(p)
    \/ \E p \in Procs, filePath \in Paths : GetFile(p, filePath)
    \/ \E p \in Procs, targetPath \in Paths, contentList \in ContentLists, dj \in BOOLEAN :
           UploadContentList(p, targetPath, contentList, dj)
    \/ \E p \in Procs : RequestFailed(p)
    \/ \E p \in Procs :
          \E response \in Answers(p, FewStatuses, FewPayloads, FewSetCookies) :
              RequestAnswered(p, response)
    \/ \E p \in Procs : HandshakeFailed(p)
    \/ \E p \in Procs, csrfResp \in CsrfResponses(FewSetCookies) : CsrfAnswered(p, csrfResp)
    \/ \E p \in Procs, loginResp \in CredentialResponses(FewSetCookies) :
           CredentialsAnswered(p, loginResp)
    \/ \E p \in Procs : CookiesRead(p)
    \/ \E p \in Procs : RetryRequest(p)

SpecConcurrent == Init /\ [][NextConcurrent]_vars

(***************************************************************************)
(* Response decoding on its own: the client is logged in, a bucket is      *)
(* selected and a data operation awaits its first response; the service    *)
(* answers 2xx with any payload of at most MaxLen characters.              *)
(***************************************************************************)
Texts == UNION {[1..n -> Alphabet] : n \in 0..MaxLen}
AllPayloads == {Text(s) : s \in Texts} \cup {Binary(s) : s \in Texts} \cup ObjectPayloads

InitDecode ==
    /\ jwt = "t1"
    /\ bucket = "b1"
    /\ cookieJar = "t1"
    /\ \E name \in {"getFile", "uploadContentList"}, dj \in BOOLEAN :
          /\ name = "getFile" => dj = FALSE
          /\ LET req == [method |-> IF name = "getFile" THEN "get" ELSE "put",
                         bucket |-> "b1", path |-> "p"] IN
             /\ pc = [p \in Procs |-> IF p = "c1" THEN "request" ELSE "idle"]
             /\ op = [p \in Procs |-> IF p = "c1" THEN name ELSE "none"]
             /\ request = [p \in Procs |-> IF p = "c1" THEN req ELSE NoRequest]
             /\ retry = [p \in Procs |-> p = "c1"]
             /\ decodeJson = [p \in Procs |-> p = "c1" /\ dj]
             /\ log = [p \in Procs |-> IF p = "c1" THEN <<Event("request", req)>> ELSE <<>>]
    /\ result = [p \in Procs |-> NoResult]
    /\ calls = 2

NextDecode ==
    \E response \in Answers("c1", {200, 299}, AllPayloads, {KeepCookie}) :
        RequestAnswered("c1", response)

SpecDecode == InitDecode /\ [][NextDecode]_vars

(***************************************************************************)
(* Reading the history of an operation                                     *)
(***************************************************************************)
DataOps == {"getFile", "uploadContentList"}
Handshake == {"csrf", "credentials", "cookies"}

Indices(l, e) == {i \in 1..Len(l) : l[i].ev = e}
Count(l, e) == Cardinality(Indices(l, e))
Has(l, e) == Indices(l, e) # {}

\* The statuses of the responses to the data requests, in order.
RECURSIVE StatusesOf(_)
StatusesOf(l) ==
    IF l = <<>> THEN <<>>
    ELSE IF Head(l).ev = "response"
         THEN <<Head(l).x.status>> \o StatusesOf(Tail(l))
         ELSE StatusesOf(Tail(l))

\* The data operation of p passed the precondition check.
Admitted(p) == op[p] \in DataOps /\ log[p] # <<>>
FirstStatusIs(p, status) ==
    /\ Admitted(p)
    /\ Len(StatusesOf(log[p])) >= 1
    /\ StatusesOf(log[p])[1] = status
LoginSucceeded(p) == Has(log[p], "jwtStored")

\* The kinds of error of the specification, told apart by the message.
IsPreconditionError(r) ==
    r.tag = "error" /\ r.message \in {MsgNotAuthenticated, MsgNoBucket}
IsAuthenticationError(r) == r.tag = "error" /\ r.message = MsgJwtCookie
IsProtocolError(r) == r.tag = "error" /\ r.message = MsgCsrf
IsTransportError(r) == r.tag = "error" /\ r.message = MsgRequestFailed
IsRequestError(r, status) ==
    r.tag = "error" /\ r.message = MsgRequestStatus /\ r.status = status

(***************************************************************************)
(* C1: a data operation whose first response is 401 invokes login()        *)
(* exactly once (one anti-forgery GET); if that login succeeds the request *)
(* is issued again exactly once, and if it does not, the request is not    *)
(* issued again.  No other login or data request belongs to the operation. *)
(***************************************************************************)
C1_ReloginOnceRetryOnce ==
    \A p \in Procs :
        FirstStatusIs(p, 401) =>
            /\ Count(log[p], "login") = 1
            /\ Count(log[p], "csrfGet") = 1
            /\ Count(log[p], "credPost") <= 1
            /\ LoginSucceeded(p) /\ pc[p] # "relogged" => Count(log[p], "request") = 2
            /\ ~LoginSucceeded(p) \/ pc[p] = "relogged" => Count(log[p], "request") = 1

C1_Witness ==
    \E p \in Procs :
        /\ FirstStatusIs(p, 401)
        /\ LoginSucceeded(p)
        /\ pc[p] = "done"
        /\ Count(log[p], "login") = 1
        /\ Count(log[p], "request") = 2

(***************************************************************************)
(* C2: when the first and the retried request of a data operation are both *)
(* answered 401, the operation has ended: two requests, one login, and the *)
(* caller gets the request error that carries status 401.                  *)
(***************************************************************************)
C2_Second401IsFinal ==
    \A p \in Procs :
        Admitted(p) /\ StatusesOf(log[p]) = <<401, 401>> =>
            /\ pc[p] = "done"
            /\ IsRequestError(result[p], 401)
            /\ Count(log[p], "request") = 2
            /\ Count(log[p], "login") = 1
            /\ Count(log[p], "csrfGet") = 1
            /\ Count(log[p], "credPost") = 1

(***************************************************************************)
(* C3: whenever no session token is held or no bucket is selected, a       *)
(* getFile or uploadContentList step throws the precondition error, sends  *)
(* nothing (its history stays empty, no handshake starts) and leaves the   *)
(* token, the bucket and the cookie jar as they are.                       *)
(***************************************************************************)
NotReady == ~Truthy(jwt) \/ ~Truthy(bucket)

PreconditionFailure(p) ==
    /\ pc'[p] = "done"
    /\ IsPreconditionError(result'[p])
    /\ result'[p].message = (IF ~Truthy(jwt) THEN MsgNotAuthenticated ELSE MsgNoBucket)
    /\ log'[p] = <<>>
    /\ jwt' = jwt
    /\ bucket' = bucket
    /\ cookieJar' = cookieJar

C3_PreconditionNoNetwork ==
    [][\A p \in Procs, path \in Paths :
          /\ NotReady /\ GetFile(p, path) => PreconditionFailure(p)
          /\ \A contentList \in ContentLists, dj \in BOOLEAN :
                NotReady /\ UploadContentList(p, path, contentList, dj)
                   => PreconditionFailure(p)]_vars

C3_Witness ==
    \E p \in Procs :
        /\ op[p] \in DataOps
        /\ pc[p] = "done"
        /\ IsPreconditionError(result[p])
        /\ log[p] = <<>>
        /\ Truthy(jwt)
        /\ ~Truthy(bucket)

(***************************************************************************)
(* C4: after a login() that returned successfully and setBucket with a     *)
(* bucket name, a data operation is admitted by the precondition check;    *)
(* when its first response is 2xx it returns a success result after        *)
(* exactly one data request and without a login.                           *)
(***************************************************************************)
LoginReturned(p) == op[p] = "login" /\ pc[p] = "done" /\ result[p].tag = "ok"

FirstAnswerSucceeds ==
    \A p \in Procs :
        /\ Admitted(p)
        /\ Len(StatusesOf(log[p])) >= 1
        /\ StatusesOf(log[p])[1] >= 200
        /\ StatusesOf(log[p])[1] < 300
        => /\ pc[p] = "done"
           /\ result[p].tag = "ok"
           /\ Count(log[p], "request") = 1
           /\ Count(log[p], "login") = 0

C4_AdmittedAfterLogin ==
    /\ []FirstAnswerSucceeds
    /\ [][\A p \in Procs, path \in Paths :
             /\ LoginReturned(p) /\ Truthy(bucket) /\ GetFile(p, path)
                   => pc'[p] = "request"
             /\ \A contentList \in ContentLists, dj \in BOOLEAN :
                   /\ LoginReturned(p) /\ Truthy(bucket)
                   /\ UploadContentList(p, path, contentList, dj)
                   => ~IsPreconditionError(result'[p])]_vars

(***************************************************************************)
(* C5: the retried request of a data operation comes after the re-login    *)
(* it triggered has completed: the anti-forgery response, the credential   *)
(* response and the storing of the token precede it in this order, the     *)
(* stored token is a string, and the call chain is no longer inside the    *)
(* handshake.                                                              *)
(***************************************************************************)
C5_ReloginBeforeRetry ==
    \A p \in Procs :
        Admitted(p) =>
            \A i \in Indices(log[p], "request") \ {1} :
                /\ \E a, b, c \in 1..(i - 1) :
                      /\ a < b /\ b < c
                      /\ log[p][a].ev = "csrfResp"
                      /\ log[p][b].ev = "credResp"
                      /\ log[p][c].ev = "jwtStored"
                /\ jwt \in Tokens
                /\ pc[p] \in {"request", "done"}

C5_Witness ==
    \E p \in Procs :
        /\ Admitted(p)
        /\ pc[p] = "request"
        /\ ~retry[p]
        /\ Count(log[p], "request") = 2
        /\ log[p][Len(log[p]) - 1].ev = "jwtStored"

(***************************************************************************)
(* C6: on a fresh client (the login is the first operation) a login()      *)
(* whose credential exchange leaves the jar without session cookie throws  *)
(* the authentication error and the token stays absent; a getFile that     *)
(* follows throws the precondition error and sends nothing, whatever the   *)
(* bucket is.                                                              *)
(***************************************************************************)
RejectedFirstLogin(p) ==
    /\ calls = 1
    /\ op[p] = "login"
    /\ pc[p] = "done"
    /\ Has(log[p], "credResp")
    /\ cookieJar = NoCookie

C6_RejectedLoginThenGetFile ==
    /\ [](\A p \in Procs :
             RejectedFirstLogin(p) => IsAuthenticationError(result[p]) /\ jwt = null)
    /\ [][\A p \in Procs, path \in Paths :
             RejectedFirstLogin(p) /\ GetFile(p, path) =>
                /\ pc'[p] = "done"
                /\ result'[p] = Thrown(MsgNotAuthenticated, NoStatus)
                /\ log'[p] = <<>>
                /\ jwt' = null]_vars

C6_Witness ==
    \E p \in Procs :
        /\ RejectedFirstLogin(p)
        /\ IsAuthenticationError(result[p])
        /\ jwt = null
        /\ Truthy(bucket)

(***************************************************************************)
(* C7: the token is written only by the step of a login() that completes   *)
(* successfully, and a token that is present (a string) stays present:     *)
(* no step of setBucket, of a failing login or of a failing data operation *)
(* sets it back to null.                                                   *)
(***************************************************************************)
StoredByLogin(p) ==
    /\ pc[p] = "cookies"
    /\ pc'[p] \in {"done", "relogged"}
    /\ log'[p] = Append(log[p], Event("jwtStored", NoDetail))
    /\ op[p] = "login" => result'[p] = Returned(Session(jwt'))

C7_TokenNeverCleared ==
    [][/\ jwt \in Tokens => jwt' \in Tokens
       /\ jwt' # jwt => \E p \in Procs : StoredByLogin(p)]_vars

C7_Witness ==
    /\ jwt \in Tokens
    /\ \E p \in Procs : op[p] = "login" /\ pc[p] = "done" /\ result[p].tag = "error"
    /\ \E p \in Procs : Admitted(p) /\ pc[p] = "done" /\ IsRequestError(result[p], 401)

(***************************************************************************)
(* C8: a data operation returns a result (body and headers) exactly when   *)
(* the last thing it received is a response with a status in [200,300);   *)
(* a last response with any other status makes it throw the request error  *)
(* carrying that status.                                                   *)
(***************************************************************************)
LastEvent(p) == log[p][Len(log[p])]
EndedWithResponse(p) ==
    op[p] \in DataOps /\ pc[p] = "done" /\ log[p] # <<>> /\ LastEvent(p).ev = "response"

C8_SuccessIffLast2xx ==
    \A p \in Procs :
        op[p] \in DataOps /\ pc[p] = "done" =>
            /\ result[p].tag = "ok" <=>
                  /\ EndedWithResponse(p)
                  /\ LastEvent(p).x.status >= 200
                  /\ LastEvent(p).x.status < 300
            /\ result[p].tag = "ok" => DOMAIN result[p].value = {"body", "headers"}
            /\ EndedWithResponse(p) /\ result[p].tag # "ok" =>
                  IsRequestError(result[p], LastEvent(p).x.status)

(***************************************************************************)
(* C9: for a 2xx response, with decodeJson false the body returned is the  *)
(* raw payload; with decodeJson true and a text payload the body is the    *)
(* structure the text denotes when the text is JSON, and the raw text      *)
(* otherwise; the operation does not throw in any of these cases.          *)
(* The JSON texts are given by the grammar, the structure that a text      *)
(* denotes by the text it serialises to.                                   *)
(***************************************************************************)
IsNumberText(t) == Len(t) >= 1 /\ \A i \in 1..Len(t) : t[i] = "1"

RECURSIVE IsJsonText(_)
RECURSIVE IsElementsText(_)
IsJsonText(t) ==
    \/ IsNumberText(t)
    \/ /\ Len(t) >= 2
       /\ t[1] = "["
       /\ t[Len(t)] = "]"
       /\ Len(t) = 2 \/ IsElementsText(SubSeq(t, 2, Len(t) - 1))

IsElementsText(t) ==
    \/ IsJsonText(t)
    \/ \E k \in 2..(Len(t) - 1) :
          /\ t[k] = ","
          /\ IsJsonText(SubSeq(t, 1, k - 1))
          /\ IsElementsText(SubSeq(t, k + 1, Len(t)))

RECURSIVE Digits(_)
Digits(n) ==
    IF n = 0 THEN <<>>
    ELSE Digits(n \div 10) \o <<IF n % 10 = 1 THEN "1" ELSE "?">>

RECURSIVE Stringify(_)
RECURSIVE Join(_)
Stringify(v) ==
    IF v.kind = "number" THEN Digits(v.num)
    ELSE <<"[">> \o Join(v.items) \o <<"]">>

Join(a) ==
    IF a = <<>> THEN <<>>
    ELSE IF Len(a) = 1 THEN Stringify(a[1])
    ELSE Stringify(a[1]) \o <<",">> \o Join(Tail(a))

Answered2xx(p) ==
    /\ EndedWithResponse(p)
    /\ LastEvent(p).x.status >= 200
    /\ LastEvent(p).x.status < 300

C9_BodyDecoding ==
    \A p \in Procs :
        Answered2xx(p) =>
            /\ result[p].tag = "ok"
            /\ LET raw == LastEvent(p).x.data
                   body == result[p].value.body IN
               /\ ~decodeJson[p] => body = raw
               /\ decodeJson[p] /\ raw.kind = "text" =>
                     IF IsJsonText(raw.val)
                     THEN /\ body.kind \in {"number", "array"}
                          /\ Stringify(body) = raw.val
                     ELSE body = raw

C9_Witness ==
    \E p \in Procs :
        /\ Answered2xx(p)
        /\ decodeJson[p]
        /\ LastEvent(p).x.data = Text(<<"[", "1", ",", "1", "]">>)
        /\ result[p].tag = "ok"
        /\ result[p].value.body = Array(<<Number(1), Number(1)>>)

(***************************************************************************)
(* C10: two data operations running on one client re-login independently:  *)
(* a 401 on the first attempt of one starts that operation's own handshake *)
(* also while the other call chain is inside a handshake, and every call   *)
(* chain past the anti-forgery step has sent its own credential POST.      *)
(***************************************************************************)
Got401(p) ==
    /\ pc[p] = "request"
    /\ retry[p]
    /\ Len(log'[p]) > Len(log[p])
    /\ log'[p][Len(log[p]) + 1].ev = "response"
    /\ log'[p][Len(log[p]) + 1].x.status = 401

C10_IndependentRelogins ==
    /\ [](\A p \in Procs :
             pc[p] \in {"credentials", "cookies"} => Count(log[p], "credPost") = 1)
    /\ [][\A p, q \in Procs :
             p # q /\ pc[q] \in Handshake /\ Got401(p) =>
                /\ pc'[p] = "csrf"
                /\ pc'[q] = pc[q]
                /\ Count(log'[p], "login") = 1
                /\ Count(log'[p], "csrfGet") = 1]_vars

C10_Witness ==
    /\ \A p \in Procs :
          /\ FirstStatusIs(p, 401)
          /\ pc[p] \in {"credentials", "cookies"}
          /\ Count(log[p], "credPost") = 1
    /\ \E p \in Procs : pc[p] = "cookies"

(***************************************************************************)
(* C11: a transport failure of a data request ends the operation at once   *)
(* with the wrapped transport error: nothing follows it in the history     *)
(* (no login, no further request), on the first attempt (one request, no   *)
(* login at all) as well as on the retried attempt (two requests, the one  *)
(* login that preceded it).                                                *)
(***************************************************************************)
RequestFailures(p) == {i \in Indices(log[p], "failure") : log[p][i].x.at = "request"}

C11_TransportFailureNotRetried ==
    \A p \in Procs :
        \A i \in RequestFailures(p) :
            /\ i = Len(log[p])
            /\ pc[p] = "done"
            /\ IsTransportError(result[p])
            /\ Count(log[p], "failure") = 1
            /\ IF Has(log[p], "response")
               THEN /\ Count(log[p], "request") = 2
                    /\ Count(log[p], "login") = 1
                    /\ StatusesOf(log[p]) = <<401>>
               ELSE /\ Count(log[p], "request") = 1
                    /\ Count(log[p], "login") = 0

C11_Witness ==
    \E p \in Procs :
        /\ RequestFailures(p) # {}
        /\ Count(log[p], "request") = 2
        /\ IsTransportError(result[p])

(***************************************************************************)
(* C12: when the re-login of a data operation fails (no anti-forgery       *)
(* token, no session cookie, or a handshake request that fails), the       *)
(* operation ends there: login() was invoked once, the request was sent    *)
(* once, and the caller gets the error login() threw.                      *)
(***************************************************************************)
ReloginFailedBy(p) ==
    IF ~(Admitted(p) /\ Has(log[p], "login")) THEN "none"
    ELSE IF LastEvent(p).ev = "csrfResp" THEN MsgCsrf
    ELSE IF LastEvent(p).ev = "paramsThrew" THEN MsgNotPrimitive
    ELSE IF LastEvent(p).ev = "noCookie" THEN MsgJwtCookie
    ELSE IF LastEvent(p).ev = "failure" /\ LastEvent(p).x.at \in {"csrf", "credentials"}
         THEN MsgAxios
    ELSE "none"

C12_ReloginFailurePropagates ==
    \A p \in Procs :
        /\ Admitted(p) => Count(log[p], "login") <= 1
        /\ ReloginFailedBy(p) # "none" =>
              /\ pc[p] = "done"
              /\ result[p] = Thrown(ReloginFailedBy(p), NoStatus)
              /\ Count(log[p], "request") = 1
              /\ Count(log[p], "csrfGet") = 1
              /\ ~Has(log[p], "jwtStored")

C12_Witness ==
    \E p \in Procs :
        /\ ReloginFailedBy(p) = MsgJwtCookie
        /\ IsAuthenticationError(result[p])
        /\ Count(log[p], "request") = 1

(***************************************************************************)
(* C13: every network call of a data operation that fails at transport     *)
(* level reaches the caller as the transport error, for the data request   *)
(* and for the two handshake requests of the re-login alike.               *)
(***************************************************************************)
C13_EveryFailureIsTransportError ==
    \A p \in Procs :
        op[p] \in DataOps /\ Has(log[p], "failure") =>
            /\ pc[p] = "done"
            /\ IsTransportError(result[p])

(***************************************************************************)
(* C14: a login() whose anti-forgery response carries no token (absent or  *)
(* empty) throws the protocol error without sending the credential POST,   *)
(* and leaves the token and the bucket as they are.                        *)
(***************************************************************************)
C14_NoCsrfTokenNoPost ==
    [][\A p \in Procs, csrfResp \in CsrfResponses(SetCookies) :
          csrfResp.csrfToken \in {null, ""} /\ CsrfAnswered(p, csrfResp) =>
             /\ pc'[p] = "done"
             /\ IsProtocolError(result'[p])
             /\ ~Has(log'[p], "credPost")
             /\ jwt' = jwt
             /\ bucket' = bucket]_vars

C14_Witness ==
    \E p \in Procs :
        /\ op[p] = "login"
        /\ pc[p] = "done"
        /\ IsProtocolError(result[p])
        /\ log[p] = <<Event("login", NoDetail), Event("csrfGet", NoDetail), Event("csrfResp", NoDetail)>>
        /\ Truthy(jwt)
        /\ Truthy(bucket)

(***************************************************************************)
(* C15: a login() whose credential POST yields no session cookie throws    *)
(* the authentication error and does not replace the stored token, also    *)
(* when an earlier login of the same client succeeded; a login() that      *)
(* returns, returns the token its own credential exchange set.             *)
(***************************************************************************)
C15_LoginNeedsOwnCookie ==
    /\ [][\A p \in Procs :
             /\ pc[p] = "cookies"
             /\ LastEvent(p).ev = "credResp"
             /\ LastEvent(p).x.setCookie \in {KeepCookie, ExpireCookie}
             /\ CookiesRead(p)
             => /\ pc'[p] = "done"
                /\ IsAuthenticationError(result'[p])
                /\ jwt' = jwt]_vars
    /\ [](\A p \in Procs :
             LoginReturned(p) =>
                \E i \in Indices(log[p], "credResp") : log[p][i].x.setCookie = result[p].value.token)

(***************************************************************************)
(* C16: the retry allowance is per call.  After a data operation ended     *)
(* with the terminal 401 the client holds a token, so the next data        *)
(* operation (bucket still selected) is admitted; an operation that gets   *)
(* 401 and whose re-login succeeds sends one retry after one login; the    *)
(* token stored by a re-login is the one it read from the jar.             *)
(***************************************************************************)
Terminal401(p) ==
    /\ Admitted(p)
    /\ pc[p] = "done"
    /\ StatusesOf(log[p]) = <<401, 401>>
    /\ IsRequestError(result[p], 401)

C16_RetryAllowancePerCall ==
    /\ [](\A p \in Procs : Terminal401(p) => jwt \in Tokens)
    /\ [](\A p \in Procs :
             FirstStatusIs(p, 401) /\ LoginSucceeded(p) /\ pc[p] = "done" =>
                Count(log[p], "login") = 1 /\ Count(log[p], "request") = 2)
    /\ [][\A p \in Procs :
             pc[p] = "cookies" /\ CookiesRead(p) /\ pc'[p] = "relogged" =>
                jwt' = cookieJar]_vars
    /\ [][\A p \in Procs, path \in Paths :
             /\ Terminal401(p) /\ Truthy(bucket) /\ GetFile(p, path)
                   => pc'[p] = "request"
             /\ \A contentList \in ContentLists, dj \in BOOLEAN :
                   /\ Terminal401(p) /\ Truthy(bucket)
                   /\ UploadContentList(p, path, contentList, dj)
                   => ~IsPreconditionError(result'[p])]_vars

(***************************************************************************)
(* C17: when every network call eventually returns a response or fails,    *)
(* every data operation ends with a result or an error, and it never       *)
(* issues more than two data requests, one anti-forgery GET and one        *)
(* credential POST.                                                        *)
(***************************************************************************)
C17_TerminatesWithinBudget ==
    /\ [](\A p \in Procs :
             Admitted(p) =>
                /\ Count(log[p], "request") <= 2
                /\ Count(log[p], "login") <= 1
                /\ Count(log[p], "csrfGet") <= 1
                /\ Count(log[p], "credPost") <= 1)
    /\ \A p \in Procs :
          (op[p] \in DataOps /\ pc[p] # "done")
             ~> (op[p] \in DataOps /\ pc[p] = "done" /\ result[p].tag \in {"ok", "error"})

C17_Witness ==
    \E p \in Procs :
        /\ Admitted(p)
        /\ pc[p] = "done"
        /\ result[p].tag = "ok"
        /\ Count(log[p], "request") = 2
        /\ Count(log[p], "csrfGet") = 1
        /\ Count(log[p], "credPost") = 1

(***************************************************************************)
(* C18: all requests of one data operation have the method, bucket and     *)
(* path the operation started with, also when setBucket selects another    *)
(* bucket while the operation is suspended.                                *)
(***************************************************************************)
C18_TargetFixedAtStart ==
    \A p \in Procs :
        Admitted(p) =>
            \A i \in Indices(log[p], "request") :
                /\ log[p][i].x = log[p][1].x
                /\ log[p][i].x = request[p]
                /\ log[p][i].x.method = (IF op[p] = "getFile" THEN "get" ELSE "put")

C18_Witness ==
    \E p \in Procs :
        /\ Admitted(p)
        /\ Count(log[p], "request") = 2
        /\ Truthy(bucket)
        /\ bucket # log[p][1].x.bucket
        /\ pc[p] = "request"

TypeOK ==
    /\ jwt \in {null} \cup Tokens
    /\ bucket \in {null} \cup Buckets
    /\ cookieJar \in {NoCookie} \cup Tokens

====
